---- MODULE Spec2Model ----
(***************************************************************************)
(* A model of the daily guessing game of jwiley21/ball-knowledge:          *)
(* the daily selection (app/routes.py, app/services/daily.py), the        *)
(* session-held progression of one participant (play, guess, hint),       *)
(* the scoring function (app/services/scoring.py) and the guess matcher   *)
(* (app/services/match.py).                                                *)
(***************************************************************************)
EXTENDS Integers, Sequences, FiniteSets, TLC

VARIABLES
    today,        \* the reference day get_today_et() returns now
    supabase,     \* TRUE iff the Supabase client is configured (app/__init__.py)
    eligible,     \* the ids the view v_players_eligible holds
    daily_game,   \* table daily_game: set of rows [game_date, player_id]
    results,      \* table results: set of rows [game_date, user_id, revealed, score]
    session,      \* the participant's Flask session (client-held cookie)
    resp,         \* what the last handled request answered
    solved,       \* days on which a correct guess of the participant was accepted
    call,         \* in-flight _db_player_bundle calls (selection race)
    req,          \* in-flight /guess requests (result-write race)
    nreq,         \* the number of requests handled so far
    fn,           \* a call of a library function: its arguments and its result
    bought,       \* the hint kinds whose purchase was answered on day `today`
    now,          \* the clock _dt.now(_tz.utc) reads, in seconds
    timed_results,\* table timed_results: rows [user_id, score] in insertion order
    streaks,      \* table streaks: set of rows [user_id, current_streak, best_streak]
    timed,        \* the timed_* keys of the session
    practice      \* the practice_* keys of the session

vars == <<today, supabase, eligible, daily_game, results, session, resp, solved, call,
          req, nreq, fn, bought, now, timed_results, streaks, timed, practice>>

-----------------------------------------------------------------------------
(* Bounds of the model *)

MaxDay == 2            \* reference days are 1..MaxDay
MaxRequests == 3       \* requests of the participant in one behaviour
NumCallers == 2        \* concurrent selection calls
NumReqs == 2           \* concurrent /guess requests of the participant

Days == 1..MaxDay
\* what the client can post as revealed: below 1, in range, above every cap
FormRevealed == {0, 1, 2, 6}
Callers == 1..NumCallers
Reqs == 1..NumReqs

\* Python's None in an integer-valued place (a missing id, day or session key)
NoPid == 0
NoDay == 0
Absent == -1

Max(a, b) == IF a >= b THEN a ELSE b
Min(a, b) == IF a <= b THEN a ELSE b

-----------------------------------------------------------------------------
(* app/services/scoring.py *)

START_SCORE == 100
PENALTY_PER_REVEAL == 10

HintKinds == {"team", "division", "conference", "record", "college",
              "first_name", "last_name"}

\* a rebate on one kind: a negative entry in HINT_COSTS
HINT_COSTS_rebate ==
    [k \in HintKinds |-> IF k = "record" THEN 0 - 8 ELSE 15]

HINT_COSTS ==
    [k \in HintKinds |->
        CASE k = "team" -> 15
          [] k = "division" -> 10
          [] k = "conference" -> 8
          [] k = "record" -> 8
          [] k = "college" -> 20
          [] k = "first_name" -> 50
          [] k = "last_name" -> 60]

\* str(h).strip().lower() on the hint kinds the model posts
LowerKind(k) ==
    IF k \in {"TEAM", " Team "} THEN "team" ELSE IF k = " " THEN "" ELSE k

\* compute_score with every revealed line charged, the first one too
compute_score_from_zero(revealed) ==
    LET r == Max(1, IF revealed = 0 THEN 1 ELSE revealed)
    IN  Max(0, START_SCORE - PENALTY_PER_REVEAL * r)

\* compute_score: r = max(1, int(revealed or 1))
compute_score(revealed) ==
    LET r == Max(1, IF revealed = 0 THEN 1 ELSE revealed)
    IN  Max(0, START_SCORE - PENALTY_PER_REVEAL * (r - 1))

RECURSIVE SumCosts(_)
SumCosts(S) ==
    IF S = {} THEN 0
    ELSE LET h == CHOOSE x \in S : TRUE
         IN  (IF h \in HintKinds THEN HINT_COSTS[h] ELSE 0) + SumCosts(S \ {h})

\* hint_penalty: unique = {lower(h) : h in hints_used, h not blank}
hint_penalty(hints_used) ==
    SumCosts({LowerKind(h) : h \in {x \in hints_used : x # ""}})

compute_total_score(revealed, hints_used) ==
    Max(0, compute_score(revealed) - hint_penalty(hints_used))

-----------------------------------------------------------------------------
(* app/services/match.py.  A name or a guess is a sequence of tokens (words *)
(* and punctuation marks); Chars gives the characters of a word.            *)

\* the punctuation marks PUNCT_RE turns into blanks
Puncts == {"."}

\* str.lower()
Lower(t) ==
    CASE t = "Tom" -> "tom"
      [] t = "Brady" -> "brady"
      [] t = "Tim" -> "tim"
      [] t = "Brown" -> "brown"
      [] t = "Browne" -> "browne"
      [] t = "Jr" -> "jr"
      [] OTHER -> t

Chars(w) ==
    CASE w = "tom" -> <<"t", "o", "m">>
      [] w = "brady" -> <<"b", "r", "a", "d", "y">>
      [] w = "tim" -> <<"t", "i", "m">>
      [] w = "brown" -> <<"b", "r", "o", "w", "n">>
      [] w = "browne" -> <<"b", "r", "o", "w", "n", "e">>
      [] w = "brdy" -> <<"b", "r", "d", "y">>
      [] w = "zed" -> <<"z", "e", "d">>
      [] w = "jr" -> <<"j", "r">>
      [] w = "t" -> <<"t">>
      [] OTHER -> <<w>>

\* the words in the order sorted() gives them
SortedWords == <<"brady", "brdy", "brown", "browne", "jr", "t", "tim", "tom", "zed">>

\* _SUFFIX_RE alternatives
SuffixWords == {"jr", "sr", "ii", "iii", "iv", "v"}

\* s.lower()
LowerSeq(s) == [i \in 1..Len(s) |-> Lower(s[i])]

\* " ".join(words) as a sequence of characters
RECURSIVE Join(_)
Join(ws) ==
    IF ws = <<>> THEN <<>>
    ELSE IF Len(ws) = 1 THEN Chars(ws[1])
    ELSE Chars(ws[1]) \o <<" ">> \o Join(Tail(ws))

IsSuffixWord(t) == t \in SuffixWords
IsPunct(t) == t \in Puncts

\* norm_name: lower(), _SUFFIX_RE.sub("") (every whole-word occurrence, with an
\* optional following "."), PUNCT_RE.sub(" "), " ".join(s.split())
norm_name(s) ==
    LET low == LowerSeq(s)
        noSuffix == SelectSeq(low, LAMBDA t : ~IsSuffixWord(t))
    IN  SelectSeq(noSuffix, LAMBDA t : ~IsPunct(t))

\* short_key: "t brady" for "tom brady"
short_key(s) ==
    LET parts == norm_name(s)
    IN  IF parts = <<>> THEN <<>>
        ELSE IF Len(parts) = 1 THEN Chars(parts[1])
        ELSE <<Head(Chars(parts[1]))>> \o <<" ">> \o Chars(parts[Len(parts)])

\* longest common subsequence; rapidfuzz's Indel distance is la + lb - 2*LCS
RECURSIVE LCS(_, _)
LCS(a, b) ==
    IF a = <<>> \/ b = <<>> THEN 0
    ELSE IF Head(a) = Head(b) THEN 1 + LCS(Tail(a), Tail(b))
    ELSE Max(LCS(Tail(a), b), LCS(a, Tail(b)))

IndelDistance(a, b) == Len(a) + Len(b) - 2 * LCS(a, b)

\* a similarity of 0..100 is kept as an integer scaled by ScoreScale
ScoreScale == 100 * 100

\* rapidfuzz _norm_distance: 100 - 100 * dist / lensum
NormDistance(dist, lensum) ==
    IF lensum = 0 THEN 100 * ScoreScale
    ELSE (100 * ScoreScale * (lensum - dist)) \div lensum

\* fuzz.ratio
ratio(a, b) == NormDistance(IndelDistance(a, b), Len(a) + Len(b))

TYPO_THRESHOLD == 90

is_typo_match(query, answer_fullname) ==
    LET qn == Join(norm_name(query))
        an == Join(norm_name(answer_fullname))
    IN  IF qn = <<>> \/ an = <<>> THEN FALSE
        ELSE IF qn = an THEN TRUE
        ELSE IF qn = short_key(answer_fullname) THEN TRUE
        ELSE ratio(qn, an) >= TYPO_THRESHOLD * ScoreScale

SeqRange(s) == {s[i] : i \in 1..Len(s)}

\* " ".join(sorted(S)) for a set of words
SortedJoin(S) == Join(SelectSeq(SortedWords, LAMBDA w : w \in S))

\* rapidfuzz default_process: lower-case, non-alphanumerics to blanks, strip
default_process(s) == SelectSeq(LowerSeq(s), LAMBDA t : ~IsPunct(t))

\* fuzz.token_set_ratio on two processed strings
token_set_ratio(s1, s2) ==
    LET tokens_a == SeqRange(s1)
        tokens_b == SeqRange(s2)
        intersect == tokens_a \cap tokens_b
        diff_ab == tokens_a \ tokens_b
        diff_ba == tokens_b \ tokens_a
        ab == SortedJoin(diff_ab)
        ba == SortedJoin(diff_ba)
        sect_len == Len(SortedJoin(intersect))
        sep == IF sect_len # 0 THEN 1 ELSE 0
        sect_ab_len == sect_len + sep + Len(ab)
        sect_ba_len == sect_len + sep + Len(ba)
        result == NormDistance(IndelDistance(ab, ba), sect_ab_len + sect_ba_len)
        sect_ab_ratio == NormDistance(sep + Len(ab), sect_len + sect_ab_len)
        sect_ba_ratio == NormDistance(sep + Len(ba), sect_len + sect_ba_len)
    IN  IF tokens_a = {} \/ tokens_b = {} THEN 0
        ELSE IF intersect # {} /\ (diff_ab = {} \/ diff_ba = {}) THEN 100 * ScoreScale
        ELSE IF sect_len = 0 THEN result
        ELSE Max(result, Max(sect_ab_ratio, sect_ba_ratio))

\* the indices of names by score, worst first
Ranked_worst_first(scores) ==
    LET n == Len(scores)
        Rank(i) == Cardinality({j \in 1..n :
                       scores[j] < scores[i] \/ (scores[j] = scores[i] /\ j < i)})
    IN  [k \in 1..n |-> CHOOSE i \in 1..n : Rank(i) = k - 1]

\* process.extract: the indices of names by score, best first, ties in list order
Ranked(scores) ==
    LET n == Len(scores)
        Rank(i) == Cardinality({j \in 1..n :
                       scores[j] > scores[i] \/ (scores[j] = scores[i] /\ j < i)})
    IN  [k \in 1..n |-> CHOOSE i \in 1..n : Rank(i) = k - 1]

FirstN(s, n) == IF Len(s) <= n THEN s ELSE SubSeq(s, 1, n)

\* suggest_players(query, population, limit, min_score) with rapidfuzz
suggest_players(query, population, limit, min_score) ==
    LET qn == norm_name(query)
        names == [i \in 1..Len(population) |-> population[i].full_name]
        scores == [i \in 1..Len(names) |-> token_set_ratio(default_process(qn), default_process(names[i]))]
        order == FirstN(Ranked(scores), limit * 2)
        kept == SelectSeq(order, LAMBDA i : scores[i] >= min_score * ScoreScale)
    IN  IF qn = <<>> \/ names = <<>> THEN <<>>
        ELSE [k \in 1..Len(FirstN(kept, limit)) |-> names[kept[k]]]

-----------------------------------------------------------------------------
(* The data the game runs on: the eligible players of the backend           *)
(* (v_players_eligible, player_seasons) and the local seed list PLAYERS.    *)

TomBrady == [full_name |-> <<"Tom", "Brady">>, player_slug |-> <<"tom", "brady">>,
             position |-> "QB"]
TimBrown == [full_name |-> <<"Tim", "Brown", "Jr", ".">>,
             player_slug |-> <<"tim", "brown">>, position |-> "WR"]

\* v_players_eligible by id, and the seasons of player_seasons ordered by season
DbPlayer(pid) == IF pid = 1 THEN TomBrady ELSE TimBrown
DbSeasons(pid) == IF pid = 1 THEN <<1, 2, 3, 4, 5, 6>> ELSE <<1, 2>>
EligibleIds == {1, 2}

\* PLAYERS = load_players_local()
PLAYERS == << [full_name |-> TimBrown.full_name, player_slug |-> TimBrown.player_slug,
               position |-> "WR", seasons |-> <<1, 2>>],
              [full_name |-> TomBrady.full_name, player_slug |-> TomBrady.player_slug,
               position |-> "QB", seasons |-> <<2, 3>>] >>

\* what the client can type into the guess box
GuessTexts == { <<"tom", "brady">>, <<"Tim", "Brown">>, <<"tom", "brdy">>,
                <<"brady">>, <<"zed">> }

\* what the client can post as hint_type
FormKinds == {"team", "TEAM", "conference", "bogus", ""}

-----------------------------------------------------------------------------
(* The persistence collaborator.  supabase-py's upsert() defaults to        *)
(* ignore_duplicates=False (PostgREST resolution=merge-duplicates): a row   *)
(* that conflicts on the key is replaced by the posted one.                 *)

SameDay(r1, r2) == r1.game_date = r2.game_date
SameDayUser(r1, r2) == r1.game_date = r2.game_date /\ r1.user_id = r2.user_id

\* daily_game.upsert(row): the key is game_date
UpsertDaily(table, row) == {r \in table : ~SameDay(r, row)} \cup {row}

\* results.upsert(row, on_conflict="game_date,user_id")
UpsertResult(table, row) == {r \in table : ~SameDayUser(r, row)} \cup {row}

\* the participant's users.id (the row landing() inserted)
UserId == 1

\* select player_id from daily_game where game_date = d limit 1
DailyPid(table, d) ==
    IF \E r \in table : r.game_date = d
    THEN (CHOOSE r \in table : r.game_date = d).player_id
    ELSE NoPid

ResultRows(table, d) == {r \in table : r.game_date = d /\ r.user_id = UserId}

-----------------------------------------------------------------------------
(* app/services/daily.py *)

\* the choice made with the process-wide generator instead of one seeded with the
\* day: the generator has moved on with every call answered before
pick_player_unseeded(d, players) ==
    players[(Cardinality({c \in Callers : call[c].pc = "done"}) % Len(players)) + 1]

\* random.Random(d.toordinal()).choice(players): a fixed function of the day
pick_player_of_day(d, players) == players[((d * 3) % Len(players)) + 1]

Perms(s) ==
    {p \in [1..Len(s) -> SeqRange(s)] : \A i, j \in 1..Len(s) : i # j => p[i] # p[j]}

\* random.Random().shuffle(seasons): any order
stat_lines_for_player(player) == Perms(player.seasons)

-----------------------------------------------------------------------------
(* app/routes.py: today's bundle *)

\* the dict _db_player_bundle returns for player pid
DbBundle(pid) ==
    [id |-> pid, full_name |-> DbPlayer(pid).full_name,
     player_slug |-> DbPlayer(pid).player_slug,
     position |-> DbPlayer(pid).position, stat_lines |-> DbSeasons(pid)]

\* the JSON fallback of get_today_player_bundle
LocalBundles(d) ==
    LET p == pick_player_of_day(d, PLAYERS)
    IN  {[id |-> NoPid, full_name |-> p.full_name, player_slug |-> p.player_slug,
          position |-> p.position, stat_lines |-> lines] :
            lines \in stat_lines_for_player(p)}

DailyRow(d, pid) == [game_date |-> d, player_id |-> pid]

\* _db_player_bundle run to its end without an exception: the bundle returned
\* and the daily_game table it leaves
DbBundleOutcomes(table, d) ==
    IF DailyPid(table, d) # NoPid
    THEN {[bundle |-> DbBundle(DailyPid(table, d)), daily_game |-> table]}
    ELSE {[bundle |-> DbBundle(pid),
           daily_game |-> UpsertDaily(table, DailyRow(d, pid))] :
            pid \in eligible}

\* the daily_game table a failed _db_player_bundle leaves: the exception came
\* before its upsert, or after it
FailedDbTables(table, d) ==
    {table} \cup {o.daily_game : o \in DbBundleOutcomes(table, d)}

\* get_today_player_bundle as one call: every (bundle, daily_game) it can end with
get_today_player_bundle(table, d) ==
    IF supabase
    THEN DbBundleOutcomes(table, d) \cup
         {[bundle |-> b, daily_game |-> t] :
            b \in LocalBundles(d), t \in FailedDbTables(table, d)}
    ELSE {[bundle |-> b, daily_game |-> table] : b \in LocalBundles(d)}

\* _get_suggest_population
DbPopulation ==
    <<[full_name |-> DbPlayer(1).full_name, position |-> DbPlayer(1).position],
      [full_name |-> DbPlayer(2).full_name, position |-> DbPlayer(2).position]>>
LocalPopulation ==
    [i \in 1..Len(PLAYERS) |->
        [full_name |-> PLAYERS[i].full_name, position |-> PLAYERS[i].position]]
get_suggest_population ==
    IF supabase /\ eligible # {} THEN DbPopulation ELSE LocalPopulation

-----------------------------------------------------------------------------
(* app/routes.py: has_played_today, play, guess, hint *)

\* db_ok: the two selects of the DB path raise no exception
has_played_today(sess, table, d, db_ok) ==
    IF supabase /\ db_ok
    THEN ResultRows(table, d) # {}
    ELSE sess.solved_today

MAX_REVEAL_CAP == 5
SUGGEST_LIMIT == 4
SUGGEST_MIN_SCORE == 80

\* session.get("revealed", 1) or 1
StoredRevealed(sess) ==
    IF sess.revealed = Absent \/ sess.revealed = 0 THEN 1 ELSE sess.revealed

\* the new-day reset at the head of play()
ResetOnNewDay(sess, d) ==
    IF sess.last_game_date # d
    THEN [sess EXCEPT !.last_game_date = d, !.revealed = 1, !.hints_used = {},
                      !.suggestions = <<>>, !.cheated_today = FALSE]
    ELSE sess

\* the reveal count play() displays
PlayRevealed(sess, lines) ==
    IF lines # <<>> THEN Max(1, Min(StoredRevealed(sess), Len(lines))) ELSE 1

\* the hint buttons play() offers
available_hints(hints_used) ==
    LET hidden == {"record", "conference"}
        base == {h \in HintKinds : h \notin hints_used /\ h \notin hidden}
    IN  IF "team" \in hints_used THEN base \ {"conference", "division"}
        ELSE IF "division" \in hints_used THEN base \ {"conference"}
        ELSE base

NoResp == [op |-> "none", outcome |-> "none", score |-> 0, revealed |-> 0,
           lines |-> 0, shown |-> <<>>,
                        suggestions |-> <<>>]

\* whether a call to the backend raises: only a configured backend can fail
DbOutcomes == IF supabase THEN BOOLEAN ELSE {TRUE}

\* play() reading the suggestions with session.get, leaving them in the session
play_keeping ==
    \E hp_ok \in DbOutcomes :
    \E o \in get_today_player_bundle(daily_game, today) :
        LET s1 == ResetOnNewDay(session, today)
            already == has_played_today(s1, results, today, hp_ok)
            revealed == PlayRevealed(s1, o.bundle.stat_lines)
            hints_used == {LowerKind(h) : h \in s1.hints_used}
        IN  /\ nreq < MaxRequests
            /\ nreq' = nreq + 1
            /\ session' = s1
            /\ daily_game' = o.daily_game
            /\ resp' = [op |-> "play",
                        outcome |-> IF already THEN "played" ELSE "page",
                        score |-> compute_total_score(revealed, hints_used),
                        revealed |-> revealed,
                        lines |-> Len(o.bundle.stat_lines),
                        shown |-> SubSeq(o.bundle.stat_lines, 1, revealed),
                        suggestions |-> s1.suggestions]
            /\ UNCHANGED <<today, supabase, eligible, fn, now, timed_results, streaks, timed, practice, bought, results, solved, call, req>>

play ==
    \E hp_ok \in DbOutcomes :
    \E o \in get_today_player_bundle(daily_game, today) :
        LET s1 == ResetOnNewDay(session, today)
            already == has_played_today(s1, results, today, hp_ok)
            revealed == PlayRevealed(s1, o.bundle.stat_lines)
            hints_used == {LowerKind(h) : h \in s1.hints_used}
        IN  /\ nreq < MaxRequests
            /\ nreq' = nreq + 1
            /\ session' = [s1 EXCEPT !.suggestions = <<>>]
            /\ daily_game' = o.daily_game
            /\ resp' = [op |-> "play",
                        outcome |-> IF already THEN "played" ELSE "page",
                        score |-> compute_total_score(revealed, hints_used),
                        revealed |-> revealed,
                        lines |-> Len(o.bundle.stat_lines),
                        shown |-> SubSeq(o.bundle.stat_lines, 1, revealed),
                        suggestions |-> s1.suggestions]
            /\ UNCHANGED <<today, supabase, eligible, fn, now, timed_results, streaks, timed, practice, bought, results, solved, call, req>>

\* max_reveal = min(5, len(lines) if lines else 1)
MaxReveal(lines) == Min(MAX_REVEAL_CAP, IF lines # <<>> THEN Len(lines) ELSE 1)

\* is_typo_match and suggest_players on the texts and pools of the model,
\* evaluated once
FullNames == {TomBrady.full_name, TimBrown.full_name}
Positions == {TomBrady.position, TimBrown.position}
TypoMatchOf == [g \in GuessTexts |-> [n \in FullNames |-> is_typo_match(g, n)]]

\* same_pos if same_pos else population
SuggestPool(population, position) ==
    LET same_pos == SelectSeq(population, LAMBDA e : e.position = position)
    IN  IF same_pos # <<>> THEN same_pos ELSE population

SuggestionsOf ==
    [population \in {DbPopulation, LocalPopulation} |->
        [position \in Positions |->
            [g \in GuessTexts |->
                suggest_players(g, SuggestPool(population, position),
                                SUGGEST_LIMIT, SUGGEST_MIN_SCORE)]]]

is_correct(g, bundle) ==
    \/ LowerSeq(g) \in {LowerSeq(bundle.full_name), LowerSeq(bundle.player_slug)}
    \/ TypoMatchOf[g][bundle.full_name]

\* the results row with a cheated session's score forfeited
ResultRow_forfeit(d, revealed, score, cheated) ==
    [game_date |-> d, user_id |-> UserId, revealed |-> revealed,
     score |-> IF cheated THEN 0 ELSE score, cheated |-> cheated]

\* the row guess() upserts: "cheated": bool(session.get("cheated_today", False))
ResultRow(d, revealed, score, cheated) ==
    [game_date |-> d, user_id |-> UserId, revealed |-> revealed, score |-> score,
     cheated |-> cheated]

\* guess() with the suggestion attempt counted like any other wrong guess
guess_body_counting(sess, table, g, form_revealed, from_suggestion, bundle, d, write_ok) ==
    LET lines == bundle.stat_lines
        max_reveal == MaxReveal(lines)
        revealed == Max(1, Min(form_revealed, max_reveal))
        score == compute_total_score(revealed, sess.hints_used)
        suggestions == SuggestionsOf[get_suggest_population][bundle.position][g]
    IN  IF is_correct(g, bundle)
        THEN [session |-> [sess EXCEPT !.solved_today = TRUE, !.revealed = 1,
                                       !.hints_used = {}, !.suggestions = <<>>],
              results |-> IF supabase /\ bundle.id # NoPid /\ write_ok
                          THEN UpsertResult(table, ResultRow(d, revealed, score, sess.cheated_today))
                          ELSE table,
              resp |-> [op |-> "guess", outcome |-> "correct", score |-> score,
                        revealed |-> 0, lines |-> 0, shown |-> <<>>,
                        suggestions |-> <<>>],
              won |-> TRUE]
        ELSE [session |-> [sess EXCEPT
                              !.suggestions = IF suggestions # <<>> THEN suggestions
                                              ELSE @,
                              !.revealed = Min(revealed + 1, max_reveal)],
              results |-> table,
              resp |-> [op |-> "guess",
                        outcome |-> IF suggestions # <<>> /\ ~from_suggestion
                                    THEN "free" ELSE "wrong",
                        score |-> 0, revealed |-> 0, lines |-> 0, shown |-> <<>>,
                        suggestions |-> <<>>],
              won |-> FALSE]

\* guess() from line 1150 on, for a request that passed the already-played check:
\* sess is the session the request carries, write_ok says that the user lookup
\* and the results upsert raise no exception
guess_body(sess, table, g, form_revealed, from_suggestion, bundle, d, write_ok) ==
    LET lines == bundle.stat_lines
        max_reveal == MaxReveal(lines)
        revealed == Max(1, Min(form_revealed, max_reveal))
        score == compute_total_score(revealed, sess.hints_used)
        suggestions == SuggestionsOf[get_suggest_population][bundle.position][g]
    IN  IF is_correct(g, bundle)
        THEN [session |-> [sess EXCEPT !.solved_today = TRUE, !.revealed = 1,
                                       !.hints_used = {}, !.suggestions = <<>>],
              results |-> IF supabase /\ bundle.id # NoPid /\ write_ok
                          THEN UpsertResult(table, ResultRow(d, revealed, score, sess.cheated_today))
                          ELSE table,
              resp |-> [op |-> "guess", outcome |-> "correct", score |-> score,
                        revealed |-> 0, lines |-> 0, shown |-> <<>>,
                        suggestions |-> <<>>],
              won |-> TRUE]
        ELSE IF suggestions # <<>> /\ ~from_suggestion
        THEN [session |-> [sess EXCEPT !.suggestions = suggestions],
              results |-> table,
              resp |-> [op |-> "guess", outcome |-> "free", score |-> 0,
                        revealed |-> 0, lines |-> 0, shown |-> <<>>,
                        suggestions |-> <<>>],
              won |-> FALSE]
        ELSE [session |-> [sess EXCEPT
                              !.suggestions = IF suggestions # <<>> THEN suggestions
                                              ELSE @,
                              !.revealed = Min(revealed + 1, max_reveal)],
              results |-> table,
              resp |-> [op |-> "guess", outcome |-> "wrong", score |-> 0,
                        revealed |-> 0, lines |-> 0, shown |-> <<>>,
                        suggestions |-> <<>>],
              won |-> FALSE]

\* the results upsert is reached on a correct guess of a backend bundle only
WriteOutcomes(g, bundle) ==
    IF supabase /\ bundle.id # NoPid /\ is_correct(g, bundle) THEN BOOLEAN ELSE {TRUE}

AlreadyResp == [op |-> "guess", outcome |-> "already", score |-> 0, revealed |-> 0,
                lines |-> 0, shown |-> <<>>,
                        suggestions |-> <<>>]

guess(g, form_revealed, from_suggestion) ==
    /\ nreq < MaxRequests
    /\ nreq' = nreq + 1
    /\ \E hp_ok \in DbOutcomes :
        IF has_played_today(session, results, today, hp_ok)
        THEN /\ resp' = AlreadyResp
             /\ UNCHANGED <<today, supabase, eligible, fn, now, timed_results, streaks, timed, practice, bought, daily_game, results, session, solved,
                            call, req>>
        ELSE \E o \in get_today_player_bundle(daily_game, today) :
             \E write_ok \in WriteOutcomes(g, o.bundle) :
                LET out == guess_body(session, results, g, form_revealed,
                                      from_suggestion, o.bundle, today, write_ok)
                IN  /\ session' = out.session
                    /\ results' = out.results
                    /\ resp' = out.resp
                    /\ daily_game' = o.daily_game
                    /\ solved' = IF out.won THEN solved \cup {today} ELSE solved
                    /\ UNCHANGED <<today, supabase, eligible, fn, now, timed_results, streaks, timed, practice, bought, call, req>>

\* hint() with a repeated purchase giving the hint back
hint_body_toggle(sess, form_revealed, hint_type) ==
    LET kind == LowerKind(hint_type)
        s1 == [sess EXCEPT !.revealed = form_revealed]
        owned == {LowerKind(h) : h \in s1.hints_used}
    IN  IF kind = "" \/ kind \notin HintKinds
        THEN [session |-> s1, outcome |-> "unknown"]
        ELSE IF kind \in owned
        THEN [session |-> [s1 EXCEPT !.hints_used = owned \ {kind}], outcome |-> "owned"]
        ELSE [session |-> [s1 EXCEPT !.hints_used = owned \cup {kind}],
              outcome |-> "ok"]

\* hint(): the session it leaves, and whether the kind was unknown, already in
\* hints_used ("owned": line 1256 is false, session["hints_used"] is not written)
\* or added ("ok")
hint_body(sess, form_revealed, hint_type) ==
    LET kind == LowerKind(hint_type)
        s1 == [sess EXCEPT !.revealed = form_revealed]
        owned == {LowerKind(h) : h \in s1.hints_used}
    IN  IF kind = "" \/ kind \notin HintKinds
        THEN [session |-> s1, outcome |-> "unknown"]
        ELSE IF kind \in owned
        THEN [session |-> s1, outcome |-> "owned"]
        ELSE [session |-> [s1 EXCEPT !.hints_used = owned \cup {kind}],
              outcome |-> "ok"]

\* hint() with the live score saved to results after the purchase
hint_saving(form_revealed, hint_type) ==
    LET out == hint_body(session, form_revealed, hint_type)
        live == compute_total_score(StoredRevealed(out.session), out.session.hints_used)
    IN  /\ nreq < MaxRequests
        /\ nreq' = nreq + 1
        /\ session' = out.session
        /\ resp' = [op |-> "hint", outcome |-> out.outcome, score |-> 0,
                    revealed |-> 0, lines |-> 0, shown |-> <<>>,
                        suggestions |-> <<>>]
        /\ results' = IF supabase
                      THEN UpsertResult(results,
                                        ResultRow(today, StoredRevealed(out.session), live,
                                                  out.session.cheated_today))
                      ELSE results
        /\ bought' = IF out.outcome = "ok" THEN bought \cup {LowerKind(hint_type)}
                      ELSE bought
        /\ UNCHANGED <<today, supabase, eligible, fn, now, timed_results, streaks, timed, practice, daily_game, solved, call, req>>

hint(form_revealed, hint_type) ==
    LET out == hint_body(session, form_revealed, hint_type)
    IN  /\ nreq < MaxRequests
        /\ nreq' = nreq + 1
        /\ session' = out.session
        /\ resp' = [op |-> "hint", outcome |-> out.outcome, score |-> 0,
                    revealed |-> 0, lines |-> 0, shown |-> <<>>,
                        suggestions |-> <<>>]
        /\ bought' = IF out.outcome = "ok" THEN bought \cup {LowerKind(hint_type)}
                      ELSE bought
        /\ UNCHANGED <<today, supabase, eligible, fn, now, timed_results, streaks, timed, practice, daily_game, results, solved, call, req>>

\* midnight in the reference timezone
Tick ==
    /\ today < MaxDay
    /\ today' = today + 1
    /\ bought' = {}
    /\ UNCHANGED <<supabase, eligible, fn, now, timed_results, streaks, timed, practice, daily_game, results, session, resp, solved, call, req,
                   nreq>>

NewSession ==
    [last_game_date |-> NoDay, revealed |-> Absent, hints_used |-> {},
     suggestions |-> <<>>, solved_today |-> FALSE, cheated_today |-> FALSE]

NoBundle == [id |-> NoPid, full_name |-> <<>>]
\* day: today_et of line 247; fbday: the day the fallback read at line 255;
\* nopids: the select of line 158 returned no row
IdleCall == [pc |-> "idle", day |-> NoDay, fbday |-> NoDay, pid |-> NoPid,
             first |-> FALSE, nopids |-> FALSE, ret |-> NoBundle]
\* day: today_et of has_played_today, line 30
IdleReq == [pc |-> "idle", day |-> NoDay, g |-> <<>>, form_revealed |-> 0,
            from_suggestion |-> FALSE, sess |-> NewSession]

\* timed_started_at of a session without the key
NoTime == 0 - 1
\* the session without timed_* keys
NoTimed ==
    [active |-> FALSE, total |-> 0, revealed |-> Absent, hints_used |-> {},
     suggestions |-> <<>>, started_at |-> NoTime, pid |-> NoPid, json_slug |-> <<>>]
\* the session without practice_* keys
NoPractice ==
    [revealed |-> Absent, hints_used |-> {}, suggestions |-> <<>>, pid |-> NoPid,
     json_slug |-> <<>>]

\* no library call under way
IdleFn == [op |-> "none", done |-> FALSE]

Init ==
    /\ today = 1
    /\ supabase \in BOOLEAN
    /\ eligible \in (IF supabase THEN {EligibleIds, {}} ELSE {{}})
    /\ daily_game = {}
    /\ results = {}
    /\ session = NewSession
    /\ resp = NoResp
    /\ solved = {}
    /\ call = [c \in Callers |-> IdleCall]
    /\ req = [r \in Reqs |-> IdleReq]
    /\ nreq = 0
    /\ fn = IdleFn
    /\ bought = {}
    /\ now = 0
    /\ timed_results = <<>>
    /\ streaks = {}
    /\ timed = NoTimed
    /\ practice = NoPractice

Next ==
    \/ play
    \/ \E g \in GuessTexts, fr \in FormRevealed, fs \in BOOLEAN : guess(g, fr, fs)
    \/ \E fr \in FormRevealed, k \in FormKinds : hint(fr, k)
    \/ Tick

Spec == Init /\ [][Next]_vars

-----------------------------------------------------------------------------
(* The selection race: _db_player_bundle of concurrent requests, one step   *)
(* per call to the backend.  call[c].first says that the call found no      *)
(* daily_game row for its day; call[c].ret is the bundle it returned.       *)

SelPcs == {"read", "pick", "upsert", "fetch"}

\* get_today_player_bundle, line 247: today_et = str(get_today_et())
SelStart(c) ==
    /\ call[c].pc = "idle"
    /\ supabase
    /\ call' = [call EXCEPT ![c] = [IdleCall EXCEPT !.pc = "read", !.day = today]]
    /\ UNCHANGED <<today, supabase, eligible, fn, now, timed_results, streaks, timed, practice, bought, daily_game, results, session, resp, solved, req,
                   nreq>>

\* lines 146-154: select player_id from daily_game
SelRead(c) ==
    /\ call[c].pc = "read"
    /\ LET pid == DailyPid(daily_game, call[c].day)
       IN  call' = [call EXCEPT ![c].pid = pid,
                                ![c].first = (pid = NoPid),
                                ![c].pc = IF pid = NoPid THEN "pick" ELSE "fetch"]
    /\ UNCHANGED <<today, supabase, eligible, fn, now, timed_results, streaks, timed, practice, bought, daily_game, results, session, resp, solved, req,
                   nreq>>

\* lines 158-163: pid = random.choice(pids)
SelPick(c) ==
    /\ call[c].pc = "pick"
    /\ \E pid \in eligible :
          call' = [call EXCEPT ![c].pid = pid, ![c].pc = "upsert"]
    /\ UNCHANGED <<today, supabase, eligible, fn, now, timed_results, streaks, timed, practice, bought, daily_game, results, session, resp, solved, req,
                   nreq>>

\* line 164: daily_game.upsert({game_date, player_id})
SelUpsert(c) ==
    /\ call[c].pc = "upsert"
    /\ daily_game' = UpsertDaily(daily_game, DailyRow(call[c].day, call[c].pid))
    /\ call' = [call EXCEPT ![c].pc = "fetch"]
    /\ UNCHANGED <<today, supabase, eligible, fn, now, timed_results, streaks, timed, practice, bought, results, session, resp, solved, req, nreq>>

\* lines 167-206: the player's meta and seasons, and the bundle returned
SelFetch(c) ==
    /\ call[c].pc = "fetch"
    /\ call' = [call EXCEPT ![c].pc = "done",
                            ![c].ret = [id |-> call[c].pid,
                                        full_name |-> DbBundle(call[c].pid).full_name]]
    /\ UNCHANGED <<today, supabase, eligible, fn, now, timed_results, streaks, timed, practice, bought, daily_game, results, session, resp, solved, req,
                   nreq>>

\* the except clause of line 251 with the error passed on to the caller
Fallback_raises(c) ==
    call' = [call EXCEPT ![c].pc = "done", ![c].fbday = today]

\* lines 251-262: the exception is logged and the JSON fallback answers, with the
\* day read again
Fallback(c) ==
    \E b \in LocalBundles(today) :
        call' = [call EXCEPT ![c].pc = "done", ![c].fbday = today,
                             ![c].ret = [id |-> NoPid, full_name |-> b.full_name]]

\* a backend call of _db_player_bundle raised
SelFail(c) ==
    /\ call[c].pc \in SelPcs
    /\ Fallback(c)
    /\ UNCHANGED <<today, supabase, eligible, fn, now, timed_results, streaks, timed, practice, bought, daily_game, results, session, resp,
                   solved, req, nreq>>

\* lines 158-161: no eligible player, RuntimeError("No players available ...")
SelNotFound(c) ==
    /\ call[c].pc = "pick"
    /\ eligible = {}
    /\ \E b \in LocalBundles(today) :
          call' = [call EXCEPT ![c].pc = "done", ![c].fbday = today,
                               ![c].nopids = TRUE,
                               ![c].ret = [id |-> NoPid, full_name |-> b.full_name]]
    /\ UNCHANGED <<today, supabase, eligible, fn, now, timed_results, streaks, timed, practice, bought, daily_game, results, session, resp,
                   solved, req, nreq>>

\* the request is answered; the worker takes the next one
SelDone(c) ==
    /\ call[c].pc = "done"
    /\ call' = [call EXCEPT ![c] = IdleCall]
    /\ UNCHANGED <<today, supabase, eligible, fn, now, timed_results, streaks, timed, practice, bought, daily_game, results, session, resp, solved, req,
                   nreq>>

InitSel == Init /\ supabase

NextSel ==
    \/ \E c \in Callers :
          SelStart(c) \/ SelRead(c) \/ SelPick(c) \/ SelUpsert(c) \/ SelFetch(c)
          \/ SelFail(c) \/ SelNotFound(c) \/ SelDone(c)
    \/ Tick

SpecSel == InitSel /\ [][NextSel]_vars

-----------------------------------------------------------------------------
(* The result-write race: /guess requests of the participant that overlap.  *)
(* A request carries the session cookie it was sent with; the cookie of the *)
(* answer replaces the browser's.                                           *)

\* guess(), lines 1140-1148
GuessBegin(r, g, form_revealed, from_suggestion) ==
    /\ req[r].pc = "idle"
    /\ nreq < MaxRequests
    /\ nreq' = nreq + 1
    /\ \E hp_ok \in DbOutcomes :
          IF has_played_today(session, results, today, hp_ok)
          THEN /\ resp' = AlreadyResp
               /\ UNCHANGED req
          ELSE /\ req' = [req EXCEPT ![r] =
                            [pc |-> "checked", day |-> today, g |-> g,
                             form_revealed |-> form_revealed,
                             from_suggestion |-> from_suggestion, sess |-> session]]
               /\ UNCHANGED resp
    /\ UNCHANGED <<today, supabase, eligible, fn, now, timed_results, streaks, timed, practice, bought, daily_game, results, session, solved, call>>

\* guess(), lines 1150-1237
GuessEnd(r) ==
    /\ req[r].pc = "checked"
    /\ \E o \in get_today_player_bundle(daily_game, today) :
       \E write_ok \in WriteOutcomes(req[r].g, o.bundle) :
          LET out == guess_body(req[r].sess, results, req[r].g, req[r].form_revealed,
                                req[r].from_suggestion, o.bundle, today, write_ok)
          IN  /\ session' = out.session
              /\ results' = out.results
              /\ resp' = out.resp
              /\ daily_game' = o.daily_game
              /\ solved' = IF out.won THEN solved \cup {today} ELSE solved
    /\ req' = [req EXCEPT ![r] = IdleReq]
    /\ UNCHANGED <<today, supabase, eligible, fn, now, timed_results, streaks, timed, practice, bought, call, nreq>>

\* the overlapping requests are typed guesses (a double submit, a second tab)
RaceTexts == { <<"tom", "brady">>, <<"Tim", "Brown">>, <<"zed">> }
RaceRevealed == {1, 2}

NextRace ==
    \/ \E r \in Reqs, g \in RaceTexts, fr \in RaceRevealed :
          GuessBegin(r, g, fr, FALSE)
    \/ \E r \in Reqs : GuessEnd(r)
    \/ Tick

SpecRace == Init /\ [][NextRace]_vars

-----------------------------------------------------------------------------
(* The claims.  A step that handles a request raises nreq and leaves the    *)
(* answer in resp', so GuessStep, HintStep and PlayStep name the steps of   *)
(* the three handlers.                                                      *)

GuessStep == nreq' # nreq /\ resp'.op = "guess"
HintStep == nreq' # nreq /\ resp'.op = "hint"
PlayStep == nreq' # nreq /\ resp'.op = "play"

\* C1: two concurrent selection calls for a day D that both found no daily_game
\* row for D and both returned a backend bundle leave exactly one row for D and
\* return the same subject.
C1_ConcurrentFirstCallsAgree ==
    \A c1, c2 \in Callers :
        ( /\ c1 # c2
          /\ call[c1].pc = "done" /\ call[c2].pc = "done"
          /\ call[c1].first /\ call[c2].first
          /\ call[c1].day = call[c2].day
          /\ call[c1].ret.id # NoPid /\ call[c2].ret.id # NoPid )
        => /\ Cardinality({r \in daily_game : r.game_date = call[c1].day}) = 1
           /\ call[c1].ret = call[c2].ret

\* C2: once daily_game holds a row for day d, no step changes the player of d.
C2_AssignmentNeverChanges ==
    [][\A d \in Days :
          DailyPid(daily_game, d) # NoPid
          => DailyPid(daily_game', d) = DailyPid(daily_game, d)]_vars

\* C3: a guess handled on a day the participant has solved is answered
\* AlreadyCompleted and leaves revealed, hints_used and the results table as they
\* were.
C3_GuessAfterSolvedRejected ==
    [][(GuessStep /\ today \in solved)
       => /\ resp'.outcome = "already"
          /\ StoredRevealed(session') = StoredRevealed(session)
          /\ session'.hints_used = session.hints_used
          /\ results' = results]_vars

\* C4: a row of results, once written, is never changed or removed by a later
\* write.
C4_ResultWrittenOnce ==
    [][\A row \in results : row \in results']_vars

\* C5: after a correct guess whose Result row was not written (the write failed or
\* was skipped), every later guess of that day is answered AlreadyCompleted.
C5_SolvedStandsWithoutRow ==
    [][(GuessStep /\ today \in solved /\ ResultRows(results, today) = {})
       => resp'.outcome = "already"]_vars

\* C6: on a day the participant has not solved, a guess is evaluated, not answered
\* AlreadyCompleted, and the first view of the day shows revealed = 1 and no hints,
\* whatever happened on earlier days.
C6_RolloverResets ==
    [][(nreq' # nreq /\ today \notin solved)
       => /\ (resp'.op = "guess" => resp'.outcome # "already")
          /\ (resp'.op = "play" /\ session.last_game_date # today
              => resp'.revealed = 1 /\ session'.hints_used = {})]_vars

\* C7: the stored revealed count is in 1..5, and the count a view displays is in
\* 1..min(5, number of stat lines of the subject shown).
C7_RevealBound ==
    /\ session.revealed # Absent => session.revealed \in 1..MAX_REVEAL_CAP
    /\ resp.op = "play"
       => resp.revealed \in 1..Min(MAX_REVEAL_CAP, Max(1, resp.lines))

\* C8: the score of a correct guess, as returned and as persisted, is the scoring
\* function of the session's own revealed count and hint set before the guess.
C8_ScoreFromGameState ==
    [][(GuessStep /\ resp'.outcome = "correct")
       => /\ resp'.score =
               compute_total_score(StoredRevealed(session), session.hints_used)
          /\ \A row \in results' \ results :
               row.score =
                 compute_total_score(StoredRevealed(session), session.hints_used)]_vars

\* C9: a hint request with an unknown kind leaves revealed, hints_used and the
\* pending suggestions as they were.
C9_UnknownHintNoChange ==
    [][(HintStep /\ resp'.outcome = "unknown")
       => /\ StoredRevealed(session') = StoredRevealed(session)
          /\ session'.hints_used = session.hints_used
          /\ session'.suggestions = session.suggestions]_vars

\* C10: with "team" owned, a hint request adds neither "conference" nor "division"
\* and does not lower the score; with "division" owned it does not add
\* "conference".
C10_SupersededHintsNotPurchasable ==
    [][HintStep
       => /\ "team" \in session.hints_used
             => /\ (session'.hints_used \ session.hints_used)
                     \cap {"conference", "division"} = {}
                /\ hint_penalty(session'.hints_used) = hint_penalty(session.hints_used)
          /\ "division" \in session.hints_used
             => "conference" \notin session'.hints_used \ session.hints_used]_vars

\* C11: buying a hint kind a second time (whatever revealed count either request
\* posts) leaves the hint set of the first purchase, and the session and the score
\* are those of a single purchase.
C11_HintTwiceAsOnce ==
    \A fr1, fr2 \in FormRevealed, k \in FormKinds :
        LET once1 == hint_body(session, fr1, k).session
            once2 == hint_body(session, fr2, k).session
            twice == hint_body(once1, fr2, k).session
        IN  /\ twice.hints_used = once1.hints_used
            /\ hint_penalty(twice.hints_used) = hint_penalty(once1.hints_used)
            /\ twice = once2
            /\ compute_total_score(StoredRevealed(twice), twice.hints_used)
                 = compute_total_score(StoredRevealed(once2), once2.hints_used)

\* a hint request for a kind the participant already owns has been handled
C11_Witness ==
    /\ resp.op = "hint" /\ resp.outcome = "owned"
    /\ session.hints_used # {}

\* C12: a wrong guess that has at least one suggestion and was typed (not a
\* suggestion click) is free: the stored revealed count and the results table are
\* left as they were, and the suggestions suggest_players found are stored as the
\* pending ones.
C12_SuggestionAttemptFree ==
    [][(GuessStep /\ resp'.outcome = "free")
       => /\ session'.revealed = session.revealed
          /\ session'.hints_used = session.hints_used
          /\ results' = results
          /\ session'.suggestions # <<>>
          /\ \E g \in GuessTexts, pos \in Positions :
                session'.suggestions = SuggestionsOf[get_suggest_population][pos][g]]_vars

\* a free attempt has just been answered: suggestions are pending
C12_Witness ==
    /\ resp.op = "guess" /\ resp.outcome = "free"
    /\ session.suggestions # <<>>

\* C13: after a free suggestion attempt, the next guess that is not correct counts:
\* it is not free again.
C13_OnlyFirstAttemptFree ==
    [][(GuessStep /\ resp.op = "guess" /\ resp.outcome = "free"
        /\ resp'.outcome \notin {"correct", "already"})
       => resp'.outcome = "wrong"]_vars

\* C14: a wrong guess that counts raises the stored revealed count by one, or
\* leaves it where it is when it is already at the cap of 5; it never lowers it
\* and never raises it by more than one.
C14_CountedGuessRevealsOne ==
    [][(GuessStep /\ resp'.outcome = "wrong")
       => /\ StoredRevealed(session') >= StoredRevealed(session)
          /\ StoredRevealed(session') <= StoredRevealed(session) + 1
          /\ StoredRevealed(session) < MAX_REVEAL_CAP
             => StoredRevealed(session') <= MAX_REVEAL_CAP]_vars

\* C15: a selection call in which a backend read or write raised returns the
\* subject pick_player_of_day gives for the day the fallback reads, with no backend
\* id; no call ends without a subject.
C15_FailureFallsBackToLocal ==
    \A c \in Callers :
        call[c].pc = "done"
        => /\ call[c].ret.full_name # <<>>
           /\ call[c].fbday # NoDay
              => /\ call[c].ret.id = NoPid
                 /\ call[c].ret.full_name =
                      pick_player_of_day(call[c].fbday, PLAYERS).full_name
                 /\ call[c].fbday >= call[c].day

\* a call whose backend write raised after the pick has returned the local subject
C15_Witness ==
    \E c \in Callers :
        /\ call[c].pc = "done" /\ call[c].fbday # NoDay
        /\ call[c].pid # NoPid /\ ~call[c].nopids
        /\ call[c].ret.id = NoPid /\ call[c].ret.full_name # <<>>

\* C16: a selection call that found no daily_game row and no eligible player ends
\* with NotFound: it returns no subject.
C16_NoEligibleIsNotFound ==
    \A c \in Callers :
        (call[c].pc = "done" /\ call[c].nopids) => call[c].ret = NoBundle

IsPrefix(s, t) == Len(s) <= Len(t) /\ SubSeq(t, 1, Len(s)) = s

\* C18: in deterministic mode, two views of the same day show the stat lines in
\* the same order: the lines of the view with the smaller reveal count are a
\* prefix of the lines of the other.
C18_LineOrderFixedPerDay ==
    [][(PlayStep /\ ~supabase /\ resp.op = "play" /\ session.last_game_date = today)
       => IsPrefix(resp.shown, resp'.shown) \/ IsPrefix(resp'.shown, resp.shown)]_vars

\* C19: the Result row a /guess request writes is keyed by the day its
\* already-played check read.
C19_DayReadOncePerRequest ==
    [][\A r \in Reqs :
          (req[r].pc = "checked" /\ req'[r].pc = "idle")
          => \A row \in results' \ results : row.game_date = req[r].day]_vars

-----------------------------------------------------------------------------
(* Calls of the library functions on arguments of their own: fn holds the   *)
(* arguments, and the result once the call has returned.                    *)

\* the game at rest while a library function is called
GameIdle ==
    /\ today = 1
    /\ supabase = FALSE
    /\ eligible = {}
    /\ daily_game = {}
    /\ results = {}
    /\ session = NewSession
    /\ resp = NoResp
    /\ solved = {}
    /\ call = [c \in Callers |-> IdleCall]
    /\ req = [r \in Reqs |-> IdleReq]
    /\ nreq = 0
    /\ bought = {}
    /\ now = 0
    /\ timed_results = <<>>
    /\ streaks = {}
    /\ timed = NoTimed
    /\ practice = NoPractice

FnFrame ==
    UNCHANGED <<today, supabase, eligible, daily_game, results, session, resp, solved,
                call, req, nreq, bought, now, timed_results, streaks, timed, practice>>

(* scoring.py on hint lists as a caller may pass them: repeated, differently *)
(* cased, padded, blank and unknown kinds                                    *)

MaxRevealedArg == 12
MaxHintList == 3

HintTokens == HintKinds \cup {"TEAM", " Team ", "bogus", "", " "}

RECURSIVE SeqsUpTo(_, _)
SeqsUpTo(S, n) ==
    IF n = 0 THEN {<<>>}
    ELSE LET shorter == SeqsUpTo(S, n - 1)
         IN  shorter \cup {Append(q, x) : q \in {t \in shorter : Len(t) = n - 1}, x \in S}

HintLists == SeqsUpTo(HintTokens, MaxHintList)

\* the costs summed over the list as passed, without the set `unique`
RECURSIVE hint_penalty_per_item(_)
hint_penalty_per_item(hs) ==
    IF hs = <<>> THEN 0
    ELSE (IF LowerKind(Head(hs)) \in HintKinds THEN HINT_COSTS[LowerKind(Head(hs))]
          ELSE 0) + hint_penalty_per_item(Tail(hs))

\* hint_penalty on a list: unique = {str(h).strip().lower() for h in hints_used
\* if str(h).strip()}, then the sum of HINT_COSTS.get(h, 0)
hint_penalty_list(hs) ==
    IF hs = <<>> THEN 0
    ELSE LET unique == {LowerKind(hs[i]) :
                          i \in {j \in 1..Len(hs) : LowerKind(hs[j]) # ""}}
         IN  SumCosts(unique)

\* compute_total_score on a list of hints
compute_total_score_list(revealed, hs) ==
    Max(0, compute_score(revealed) - hint_penalty_list(hs))

ScoreCalls ==
    {[op |-> "score", done |-> FALSE, revealed |-> r, hints |-> hs, out |-> 0] :
        r \in 0..MaxRevealedArg, hs \in HintLists}

InitScore == GameIdle /\ fn \in ScoreCalls

ScoreCall ==
    /\ fn.op = "score" /\ ~fn.done
    /\ fn' = [fn EXCEPT !.done = TRUE,
                        !.out = compute_total_score_list(fn.revealed, fn.hints)]
    /\ FnFrame

NextScore == ScoreCall

SpecScore == InitScore /\ [][NextScore]_vars

\* the cost of a set of kinds, kind by kind; a kind that is not priced costs 0
PricedCost(S) ==
    (IF "team" \in S THEN HINT_COSTS["team"] ELSE 0)
    + (IF "division" \in S THEN HINT_COSTS["division"] ELSE 0)
    + (IF "conference" \in S THEN HINT_COSTS["conference"] ELSE 0)
    + (IF "record" \in S THEN HINT_COSTS["record"] ELSE 0)
    + (IF "college" \in S THEN HINT_COSTS["college"] ELSE 0)
    + (IF "first_name" \in S THEN HINT_COSTS["first_name"] ELSE 0)
    + (IF "last_name" \in S THEN HINT_COSTS["last_name"] ELSE 0)

\* C21: for a revealed count r >= 1 and known hint kinds h, the score returned is
\* max(0, START_SCORE - PENALTY_PER_REVEAL * (r - 1) - the costs of the distinct
\* kinds of h); for r = 3 and h = {team} it is 65.
C21_ScoreFormula ==
    (fn.op = "score" /\ fn.done /\ fn.revealed >= 1
     /\ \A i \in 1..Len(fn.hints) : fn.hints[i] \in HintKinds)
    => /\ fn.out = Max(0, START_SCORE - PENALTY_PER_REVEAL * (fn.revealed - 1)
                          - PricedCost(SeqRange(fn.hints)))
       /\ (fn.revealed = 3 /\ fn.hints = <<"team">>) => fn.out = 65

\* the scenario of the specification has been computed
C21_Witness ==
    /\ fn.op = "score" /\ fn.done
    /\ fn.revealed = 3 /\ fn.hints = <<"team">> /\ fn.out = 65

\* C22: the score does not rise when one more line is revealed or when one more
\* hint is added, and the score of one line and no hint is START_SCORE.
C22_ScoreMonotone ==
    (fn.op = "score" /\ fn.done)
    => /\ compute_total_score_list(fn.revealed + 1, fn.hints) <= fn.out
       /\ \A k \in HintTokens :
             compute_total_score_list(fn.revealed, Append(fn.hints, k)) <= fn.out
       /\ (fn.revealed = 1 /\ fn.hints = <<>>) => fn.out = START_SCORE

\* a score strictly between 0 and START_SCORE: lines and hints both cost
C22_Witness ==
    /\ fn.op = "score" /\ fn.done
    /\ fn.revealed = 2 /\ fn.hints = <<"team", "college">>
    /\ fn.out > 0 /\ fn.out < START_SCORE

\* C23: for every hint list, with unknown, blank, repeated and differently cased
\* kinds, a score in 0..START_SCORE is returned: each known kind is charged once
\* and the other entries nothing.
C23_ScoreTotal ==
    (fn.op = "score" /\ fn.done)
    => /\ fn.out \in 0..START_SCORE
       /\ fn.out = Max(0, compute_score(fn.revealed)
                          - PricedCost({LowerKind(fn.hints[i]) : i \in 1..Len(fn.hints)}))

\* a list with a kind in two casings and an unknown kind has been scored
C23_Witness ==
    /\ fn.op = "score" /\ fn.done
    /\ fn.revealed = 1 /\ fn.hints = <<"TEAM", "team", "bogus">>
    /\ fn.out = START_SCORE - HINT_COSTS["team"]

\* C24: a view empties the pending suggestions it displays, a view that follows a
\* view directly displays none, and only a guess answered as wrong stores new
\* ones.
C24_SuggestionsShownOnce ==
    [][/\ PlayStep
          => /\ session'.suggestions = <<>>
             /\ resp'.suggestions \in {session.suggestions, <<>>}
             /\ resp.op = "play" => resp'.suggestions = <<>>
       /\ (session'.suggestions # session.suggestions /\ session'.suggestions # <<>>)
          => GuessStep /\ resp'.outcome \in {"free", "wrong"}]_vars

\* a view has displayed suggestions and left none pending
C24_Witness ==
    /\ resp.op = "play" /\ resp.suggestions # <<>>
    /\ session.suggestions = <<>>

-----------------------------------------------------------------------------
(* app/services/hints.py.  A stat line is [season, team]; None is NoSeason  *)
(* or "", a season that is no number is BadSeason.  The result is a record  *)
(* whose None and absent fields are NoSeason, "" or <<>>; raised says that  *)
(* the call ended with an exception instead.                                *)

NoSeason == 0
BadSeason == 0 - 2
Season2019 == 2019

\* TEAM_ALIAS and DIVISION_BY_TEAM on the team codes of the model
TEAM_ALIAS == [c \in {"NWE", "GNB"} |-> IF c = "NWE" THEN "NE" ELSE "GB"]
DIVISION_BY_TEAM ==
    [t \in {"NE", "GB"} |-> IF t = "NE" THEN <<"AFC", "East">> ELSE <<"NFC", "North">>]

\* str(code).upper().strip()
UpperCode(code) == IF code = "gb" THEN "GB" ELSE code

canon(code) ==
    IF code = "" THEN ""
    ELSE LET c == UpperCode(code)
         IN  IF c \in DOMAIN TEAM_ALIAS THEN TEAM_ALIAS[c] ELSE c

\* the rows of team_seasons
TeamSeasons ==
    { [season |-> Season2019, team |-> "NE", wins |-> 12, losses |-> 4, ties |-> 0],
      [season |-> Season2019, team |-> "GB", wins |-> 13, losses |-> 2, ties |-> 1] }

_format_record(w, l, t) == IF t > 0 THEN <<w, l, t>> ELSE <<w, l>>

\* how the record backend behaves during a call
Backends == {"none", "up", "down"}

\* _get_team_record: None without a backend, a team or a season, and when the
\* select raises or finds no row
_get_team_record(season, team, backend) ==
    IF backend = "none" \/ team = "" \/ season = NoSeason THEN <<>>
    ELSE IF backend = "down" THEN <<>>
    ELSE LET rows == {r \in TeamSeasons : r.season = season /\ r.team = team}
         IN  IF rows = {} THEN <<>>
             ELSE LET r == CHOOSE x \in rows : TRUE
                  IN  _format_record(r.wins, r.losses, r.ties)

\* toks[-1].rstrip(".").upper() in {"JR", "SR", "II", "III", "IV", "V"}
IsTrailingSuffix(w) == w \in {"Jr.", "Jr", "JR", "III"}

_strip_suffix(toks) ==
    IF toks # <<>> /\ IsTrailingSuffix(toks[Len(toks)])
    THEN SubSeq(toks, 1, Len(toks) - 1) ELSE toks

NoHints ==
    [raised |-> FALSE, empty |-> TRUE, season |-> NoSeason, team |-> "",
     conference |-> "", division |-> "", record |-> <<>>, college |-> "",
     first_name |-> "", last_name |-> ""]

\* resolve_hint_values with int(season) guarded like the lookup it feeds
resolve_hint_values_guarded(bundle, line_idx, backend) ==
    LET lines == bundle.stat_lines
    IN  IF lines = <<>> THEN NoHints
        ELSE LET idx == Max(0, Min(line_idx, Len(lines) - 1))
                 line == lines[idx + 1]
                 team == canon(line.team)
                 known == team # "" /\ team \in DOMAIN DIVISION_BY_TEAM
                 parts == _strip_suffix(bundle.full_name)
             IN  [raised |-> FALSE, empty |-> FALSE,
                  season |-> line.season, team |-> team,
                  conference |-> IF known THEN DIVISION_BY_TEAM[team][1] ELSE "",
                  division |-> IF known THEN DIVISION_BY_TEAM[team][2] ELSE "",
                  record |-> IF line.season \notin {NoSeason, BadSeason} /\ team # ""
                             THEN _get_team_record(line.season, team, backend)
                             ELSE <<>>,
                  college |-> bundle.college,
                  first_name |-> IF Len(parts) >= 1 THEN parts[1] ELSE "",
                  last_name |-> IF Len(parts) >= 2 THEN parts[Len(parts)] ELSE ""]

\* resolve_hint_values: int(season) at line 98 is evaluated outside any try, so a
\* season that is no number raises ValueError when the line has a team
resolve_hint_values(bundle, line_idx, backend) ==
    LET lines == bundle.stat_lines
        idx == Max(0, Min(line_idx, Len(lines) - 1))
    IN  IF lines # <<>> /\ lines[idx + 1].season = BadSeason
                       /\ canon(lines[idx + 1].team) # ""
        THEN [NoHints EXCEPT !.raised = TRUE, !.empty = FALSE]
        ELSE resolve_hint_values_guarded(bundle, line_idx, backend)

MaxLines == 2
MaxLineIdx == 2

HintLines ==
    {[season |-> se, team |-> t] :
        se \in {Season2019, NoSeason, BadSeason}, t \in {"NWE", "NE", "gb", "XYZ", ""}}

HintBundles ==
    {[stat_lines |-> ls, full_name |-> n, college |-> c] :
        ls \in SeqsUpTo(HintLines, MaxLines),
        n \in {<<>>, <<"Cher">>, <<"Tom", "Brady">>, <<"Tim", "Brown", "Jr.">>},
        c \in {"", "Michigan"}}

HintCalls ==
    {[op |-> "hints", done |-> FALSE, bundle |-> b, line_idx |-> i, out |-> NoHints] :
        b \in HintBundles, i \in (0 - 1)..MaxLineIdx}

InitHints == GameIdle /\ fn \in HintCalls

HintsCall ==
    /\ fn.op = "hints" /\ ~fn.done
    /\ \E backend \in Backends :
          fn' = [fn EXCEPT !.done = TRUE,
                          !.out = resolve_hint_values(fn.bundle, fn.line_idx, backend)]
    /\ FnFrame

NextHints == HintsCall

SpecHints == InitHints /\ [][NextHints]_vars

\* C25: every call of resolve_hint_values returns hint values: none ends with an
\* exception.
C25_ResolveHintsTotal ==
    (fn.op = "hints" /\ fn.done) => ~fn.out.raised

-----------------------------------------------------------------------------
(* match.py and the acceptance test of guess() called on names, guesses and *)
(* populations of their own.                                                *)

\* eligible players with names close to one another
TimBrownJr == [full_name |-> <<"Tim", "Brown", "Jr", ".">>,
               player_slug |-> <<"tim", "brown", "jr">>, position |-> "WR"]
TimBrownSr == [full_name |-> <<"Tim", "Brown">>,
               player_slug |-> <<"tim", "brown", "sr">>, position |-> "WR"]
TimBrowne == [full_name |-> <<"Tim", "Browne">>,
              player_slug |-> <<"tim", "browne">>, position |-> "WR"]

MatchMembers == {TomBrady, TimBrownJr, TimBrownSr, TimBrowne}

\* what is typed into the guess box
MatchGuesses ==
    GuessTexts \cup { <<"Tom", "Brady">>, <<"t", "brady">>, <<"tim", "brown", "jr">>,
                      <<"Tim", "Brown", "Jr", ".">>, <<"Tim", "Browne">>,
                      <<"Jr", ".">>, <<>> }

\* is_correct = (user_guess in candidates) or correct_via_typo
accepts(g, bundle) ==
    \/ LowerSeq(g) \in {LowerSeq(bundle.full_name), LowerSeq(bundle.player_slug)}
    \/ is_typo_match(g, bundle.full_name)

\* a players row whose player_slug is null: (bundle.get("player_slug") or "")
NoSlugPlayer == [full_name |-> <<"Tom", "Brady">>, player_slug |-> <<>>,
                 position |-> "QB"]

AcceptBundles == MatchMembers \cup {NoSlugPlayer}

AcceptCalls ==
    {[op |-> "accept", done |-> FALSE, g |-> g, bundle |-> b, out |-> FALSE] :
        g \in MatchGuesses, b \in AcceptBundles}

\* names as token sequences, with suffix words in every position
MaxNameLen == 3
NameTokens == {"Tim", "Brown", "Jr", "v", "."}

NormCalls ==
    {[op |-> "norm", done |-> FALSE, name |-> n, out |-> <<>>] :
        n \in SeqsUpTo(NameTokens, MaxNameLen)}

\* populations as get_suggest_population returns them: (full_name, position)
MaxLimit == 3
MinScores == {0, SUGGEST_MIN_SCORE, 100}
SuggestPopulations ==
    { <<>>,
      <<TomBrady, TimBrownJr>>,
      <<TimBrownJr, TimBrowne, TomBrady, TimBrownSr>>,
      <<TimBrowne, TimBrownSr, TimBrownJr>>,
      <<TomBrady, TimBrownSr, TomBrady, TimBrownSr>> }

SuggestCalls ==
    {[op |-> "suggest", done |-> FALSE, query |-> q, population |-> p,
      limit |-> l, min_score |-> m, out |-> <<>>] :
        q \in MatchGuesses, p \in SuggestPopulations, l \in 1..MaxLimit, m \in MinScores}

InitMatch == GameIdle /\ fn \in AcceptCalls \cup NormCalls \cup SuggestCalls

AcceptCall ==
    /\ fn.op = "accept" /\ ~fn.done
    /\ fn' = [fn EXCEPT !.done = TRUE, !.out = accepts(fn.g, fn.bundle)]
    /\ FnFrame

NormCall ==
    /\ fn.op = "norm" /\ ~fn.done
    /\ fn' = [fn EXCEPT !.done = TRUE, !.out = norm_name(fn.name)]
    /\ FnFrame

SuggestCall ==
    /\ fn.op = "suggest" /\ ~fn.done
    /\ fn' = [fn EXCEPT !.done = TRUE,
                        !.out = suggest_players(fn.query, fn.population,
                                                fn.limit, fn.min_score)]
    /\ FnFrame

NextMatch == AcceptCall \/ NormCall \/ SuggestCall

SpecMatch == InitMatch /\ [][NextMatch]_vars

\* C26: a guess is accepted when it is the subject's exact name, its slug with
\* dashes read as spaces, its first-initial plus last-name key, or a variant
\* within the similarity threshold of the true name; a guess that is the name of
\* a different population member with a similar spelling is rejected.
C26_OtherMemberRejected ==
    (fn.op = "accept" /\ fn.done) =>
        LET g == fn.g
            b == fn.bundle
            qn == Join(norm_name(g))
            an == Join(norm_name(b.full_name))
        IN  /\ ( \/ LowerSeq(g) = LowerSeq(b.full_name)
                 \/ LowerSeq(g) = LowerSeq(b.player_slug)
                 \/ (qn # <<>> /\ qn = short_key(b.full_name)) ) => fn.out
            /\ (\E m \in MatchMembers :
                    /\ m.full_name # b.full_name
                    /\ LowerSeq(g) = LowerSeq(m.full_name)) => ~fn.out

\* the words of a name: lower-cased, punctuation removed
NameWords(s) == SelectSeq(LowerSeq(s), LAMBDA t : ~IsPunct(t))

\* C28: normalization removes a generational suffix token only when it is the
\* trailing token of the name; the same token in a non-trailing position is kept.
C28_SuffixOnlyTrailing ==
    (fn.op = "norm" /\ fn.done) =>
        LET words == NameWords(fn.name)
            n == Len(words)
        IN  fn.out = IF n > 0 /\ IsSuffixWord(words[n])
                     THEN SubSeq(words, 1, n - 1) ELSE words

-----------------------------------------------------------------------------
(* src/api.py: search_jokes on a query, a limit and the "result" list the   *)
(* API answers with (the "value" of each item; "" for a missing value).     *)

MinJokeLimit == 0 - 1
MaxJokeLimit == 3
MaxItems == 3

JokeQueries == {"", " ", "code"}
JokeValues == {"joke 1", "joke 2", ""}

\* (query or "").strip()
StripQuery(q) == IF q \in {"", " "} THEN "" ELSE q

\* for it in items: append a non-empty value; break once len(out) >= max(1, limit)
RECURSIVE jokes_loop(_, _, _)
jokes_loop(items, out, limit) ==
    IF items = <<>> THEN out
    ELSE LET val == Head(items)
             out1 == IF val # "" THEN Append(out, val) ELSE out
         IN  IF Len(out1) >= Max(1, limit) THEN out1
             ELSE jokes_loop(Tail(items), out1, limit)

\* search_jokes: the list returned and whether _get_json was called
search_jokes(query, limit, items) ==
    IF StripQuery(query) = "" THEN [out |-> <<>>, requested |-> FALSE]
    ELSE [out |-> jokes_loop(items, <<>>, limit), requested |-> TRUE]

JokeCalls ==
    {[op |-> "jokes", done |-> FALSE, query |-> q, limit |-> l, items |-> its,
      out |-> <<>>, requested |-> FALSE] :
        q \in JokeQueries, l \in MinJokeLimit..MaxJokeLimit,
        its \in SeqsUpTo(JokeValues, MaxItems)}

InitJokes == GameIdle /\ fn \in JokeCalls

JokesCall ==
    /\ fn.op = "jokes" /\ ~fn.done
    /\ LET r == search_jokes(fn.query, fn.limit, fn.items)
       IN  fn' = [fn EXCEPT !.done = TRUE, !.out = r.out, !.requested = r.requested]
    /\ FnFrame

NextJokes == JokesCall

SpecJokes == InitJokes /\ [][NextJokes]_vars

\* C30: search_jokes(query, limit) returns at most `limit` joke texts, in the
\* order of the API result and skipping empty values, for every integer limit;
\* a blank query returns an empty list without issuing a request.
C30_AtMostLimitJokes ==
    (fn.op = "jokes" /\ fn.done) =>
        LET texts == SelectSeq(fn.items, LAMBDA v : v # "")
        IN  /\ Len(fn.out) <= Max(0, fn.limit)
            /\ IsPrefix(fn.out, texts)
            /\ StripQuery(fn.query) = "" => (fn.out = <<>> /\ ~fn.requested)

-----------------------------------------------------------------------------
(* The cheat flag: POST /cheat-mark next to the handlers of the daily game. *)

\* request.form.get("mode") or request.args.get("mode") or ""
CheatModes == {"daily", "DAILY", "timed", ""}

\* m.lower()
LowerMode(m) == IF m = "DAILY" THEN "daily" ELSE m

\* the session cheat_mark leaves
cheat_mark_body(sess, m) ==
    IF LowerMode(m) = "daily" THEN [sess EXCEPT !.cheated_today = TRUE] ELSE sess

cheat_mark(m) ==
    /\ session' = cheat_mark_body(session, m)
    /\ UNCHANGED <<today, supabase, eligible, fn, now, timed_results, streaks, timed, practice, bought, daily_game, results, resp, solved,
                   call, req, nreq>>

NextCheat ==
    \/ play
    \/ \E g \in GuessTexts, fr \in FormRevealed, fs \in BOOLEAN : guess(g, fr, fs)
    \/ \E fr \in FormRevealed, k \in FormKinds : hint(fr, k)
    \/ Tick
    \/ \E m \in CheatModes : cheat_mark(m)

SpecCheat == Init /\ [][NextCheat]_vars

\* a session and a results table without the cheat annotation
Unmarked(sess) == [sess EXCEPT !.cheated_today = FALSE]
UnmarkedRows(table) == {[r EXCEPT !.cheated = FALSE] : r \in table}
\* the same session and table with every cheat annotation the other way round
OtherRun(sess) == [sess EXCEPT !.cheated_today = ~@]
OtherRows(table) == {[r EXCEPT !.cheated = ~@] : r \in table}

\* C29: the cheat flag is non-interfering.  In every state the daily game
\* reaches, the run that differs only in the cheat annotations answers every
\* request alike: cheat-mark changes nothing but the flag, and play, guess and
\* hint give the same score, the same accept/reject outcome and the same
\* revealed and hints_used, with only the cheated annotation differing.
C29_CheatNonInterfering ==
    LET s2 == OtherRun(session)
        t2 == OtherRows(results)
    IN  /\ \A m \in CheatModes :
              Unmarked(cheat_mark_body(session, m)) = Unmarked(session)
        /\ \A hp_ok \in DbOutcomes :
              /\ has_played_today(s2, t2, today, hp_ok)
                    = has_played_today(session, results, today, hp_ok)
              /\ LET a == ResetOnNewDay(session, today)
                     b == ResetOnNewDay(s2, today)
                 IN  /\ Unmarked(a) = Unmarked(b)
                     /\ has_played_today(a, results, today, hp_ok)
                           = has_played_today(b, t2, today, hp_ok)
        /\ \A bundle \in {o.bundle : o \in get_today_player_bundle(daily_game, today)} :
           \A g \in GuessTexts, fr \in FormRevealed, fs \in BOOLEAN :
           \A write_ok \in WriteOutcomes(g, bundle) :
              LET a == guess_body(session, results, g, fr, fs, bundle, today, write_ok)
                  b == guess_body(s2, t2, g, fr, fs, bundle, today, write_ok)
              IN  /\ a.resp = b.resp
                  /\ a.won = b.won
                  /\ Unmarked(a.session) = Unmarked(b.session)
                  /\ UnmarkedRows(a.results) = UnmarkedRows(b.results)
        /\ \A fr \in FormRevealed, k \in FormKinds :
              LET a == hint_body(session, fr, k)
                  b == hint_body(s2, fr, k)
              IN  /\ a.outcome = b.outcome
                  /\ Unmarked(a.session) = Unmarked(b.session)

\* a day on which cheat-mark was called and the correct guess then recorded
C29_Witness ==
    /\ session.cheated_today
    /\ session.solved_today
    /\ resp.op = "guess" /\ resp.outcome = "correct"
    /\ \E r \in results : r.game_date = today /\ r.cheated

-----------------------------------------------------------------------------
(* Hints across the day boundary: bought holds the kinds purchased on the   *)
(* current day.                                                             *)

\* C33: hints purchased on an earlier day never reduce the score recorded for a
\* later day: the row a correct guess writes on day D holds at least the score
\* of its revealed count and the hints purchased on day D.
C33_OldHintsNotCounted ==
    [][(GuessStep /\ resp'.outcome = "correct")
          => \A row \in results' \ results :
                row.score >= compute_total_score(row.revealed, bought)]_vars

\* C34: an empty or whitespace-only guess (no token left after strip()) is never
\* accepted as correct, for every subject bundle including one whose slug or
\* name is missing or empty.
C34_EmptyGuessRejected ==
    (fn.op = "accept" /\ fn.done /\ fn.g = <<>>) => ~fn.out

\* C35: within one reference day every request sees the same subject, even when
\* the backend fails on some requests and succeeds on others: a call the backend
\* answered and a call that fell back to the seed list on the same day return
\* the same subject.
C35_SameSubjectAcrossFailures ==
    \A c1, c2 \in Callers :
        ( /\ call[c1].pc = "done" /\ call[c2].pc = "done"
          /\ call[c1].ret.id # NoPid
          /\ call[c2].fbday = call[c2].day
          /\ call[c2].day = call[c1].day )
        => call[c1].ret.full_name = call[c2].ret.full_name

-----------------------------------------------------------------------------
(* Streaks: _update_streaks_after_win, called by guess() after the results  *)
(* upsert of a correct guess.                                               *)

MaxStreak == 3

\* the streaks row of the participant, as maybe_single() returns it
StreakRows(table) == {r \in table : r.user_id = UserId}

\* streaks.upsert(..., on_conflict="user_id")
UpsertStreak(table, row) == {r \in table : r.user_id # row.user_id} \cup {row}

\* _update_streaks_after_win with a backend: the table it leaves.  yres_ok,
\* srow_ok, upsert_ok: the select of yesterday's result, the select of the
\* streak row and the upsert raise no exception
_update_streaks_after_win(table, res, d, yres_ok, srow_ok, upsert_ok) ==
    LET had_yesterday ==
            yres_ok /\ \E r \in res : r.user_id = UserId /\ r.game_date = d - 1
        found == srow_ok /\ StreakRows(table) # {}
        sdata == CHOOSE r \in StreakRows(table) : TRUE
        prev_current == IF found THEN sdata.current_streak ELSE 0
        prev_best == IF found THEN sdata.best_streak ELSE 0
        new_current == IF had_yesterday THEN prev_current + 1 ELSE 1
        new_best == Max(prev_best, new_current)
    IN  IF upsert_ok
        THEN UpsertStreak(table, [user_id |-> UserId, current_streak |-> new_current,
                                  best_streak |-> new_best])
        ELSE table

\* guess(), lines 1179-1198: the results upsert of a correct guess on a backend
\* bundle, then the streak update
StreakWin(revealed, yres_ok, srow_ok, upsert_ok) ==
    /\ supabase
    /\ \A r \in StreakRows(streaks) : r.current_streak < MaxStreak
    /\ results' = UpsertResult(results,
                               ResultRow(today, revealed,
                                         compute_total_score(revealed, {}), FALSE))
    /\ streaks' = _update_streaks_after_win(streaks, results', today,
                                            yres_ok, srow_ok, upsert_ok)
    /\ UNCHANGED <<today, supabase, eligible, daily_game, session, resp, solved, call,
                   req, nreq, fn, bought, now, timed_results, timed, practice>>

InitStreak == Init /\ supabase

NextStreak ==
    \/ \E revealed \in 1..MAX_REVEAL_CAP, yres_ok, srow_ok, upsert_ok \in BOOLEAN :
          StreakWin(revealed, yres_ok, srow_ok, upsert_ok)
    \/ Tick

SpecStreak == InitStreak /\ [][NextStreak]_vars

\* C36: the stored best_streak never decreases and is always at least the stored
\* current_streak, across any sequence of streak updates including ones where
\* reading the streak row or yesterday's result fails.
C36_BestStreakMonotone ==
    [][\A r \in StreakRows(streaks) :
          \A r2 \in StreakRows(streaks') :
              /\ r2.best_streak >= r.best_streak
              /\ r2.best_streak >= r2.current_streak]_vars

-----------------------------------------------------------------------------
(* Timed mode: the Top 10 of table timed_results.                           *)

TOP_N == 10
OtherUserId == 2

\* .order("score", desc=True).limit(10): the rows by score, best first
Top10(table) ==
    LET order == Ranked([i \in 1..Len(table) |-> table[i].score])
    IN  FirstN([k \in 1..Len(table) |-> table[order[k]]], TOP_N)

\* min(top_scores)
MinScore(rows) ==
    CHOOSE m \in {rows[i].score : i \in 1..Len(rows)} :
        \A i \in 1..Len(rows) : m <= rows[i].score

\* the calls of the backend that can raise inside _timed_maybe_save_top10
SaveOutcomes == {"ok", "read", "insert", "verify"}

\* the save with a score equal to the 10th place let in
save_top10_on_tie(table, score, user_id, raises) ==
    LET top == Top10(table)
        qualifies == Len(top) < TOP_N \/ score >= MinScore(top)
        row == [user_id |-> user_id, score |-> score]
        after == Append(table, row)
    IN  IF raises = "read" THEN [table |-> table, saved |-> FALSE]
        ELSE IF ~qualifies THEN [table |-> table, saved |-> FALSE]
        ELSE IF raises = "insert" THEN [table |-> table, saved |-> FALSE]
        ELSE IF raises = "verify" THEN [table |-> after, saved |-> FALSE]
        ELSE [table |-> after,
              saved |-> \E i \in 1..Len(Top10(after)) : Top10(after)[i] = row]

\* _timed_maybe_save_top10(score, user_id) with a backend: the table it leaves
\* and what it returns; raises names the backend call that raised, if any
_timed_maybe_save_top10(table, score, user_id, raises) ==
    LET top == Top10(table)
        qualifies == Len(top) < TOP_N \/ score > MinScore(top)
        row == [user_id |-> user_id, score |-> score]
        after == Append(table, row)
    IN  IF raises = "read" THEN [table |-> table, saved |-> FALSE]
        ELSE IF ~qualifies THEN [table |-> table, saved |-> FALSE]
        ELSE IF raises = "insert" THEN [table |-> table, saved |-> FALSE]
        ELSE IF raises = "verify" THEN [table |-> after, saved |-> FALSE]
        ELSE [table |-> after,
              saved |-> \E i \in 1..Len(Top10(after)) : Top10(after)[i] = row]

\* tables of up to MaxRows rows: every row scores 100 but the first, the second
\* row is the participant's
MaxRows == 11
FirstScores == {0, 100, 200}
SavedScores == {0, 50, 100, 150}

TableOf(n, first) ==
    [i \in 1..n |-> [user_id |-> IF i = 2 THEN UserId ELSE OtherUserId,
                     score |-> IF i = 1 THEN first ELSE 100]]

Top10Calls ==
    {[op |-> "top10", done |-> FALSE, table |-> TableOf(n, first), score |-> sc,
      user_id |-> UserId, raises |-> x, out |-> [table |-> <<>>, saved |-> FALSE]] :
        n \in 0..MaxRows, first \in FirstScores, sc \in SavedScores, x \in SaveOutcomes}

InitTop10 == GameIdle /\ fn \in Top10Calls

Top10Call ==
    /\ fn.op = "top10" /\ ~fn.done
    /\ fn' = [fn EXCEPT !.done = TRUE,
                        !.out = _timed_maybe_save_top10(fn.table, fn.score, fn.user_id,
                                                        fn.raises)]
    /\ FnFrame

NextTop10 == Top10Call

SpecTop10 == InitTop10 /\ [][NextTop10]_vars

\* the score in place TOP_N of a table of at least TOP_N rows
TenthPlace(table) ==
    CHOOSE m \in {table[i].score : i \in 1..Len(table)} :
        /\ Cardinality({i \in 1..Len(table) : table[i].score > m}) < TOP_N
        /\ Cardinality({i \in 1..Len(table) : table[i].score >= m}) >= TOP_N

Qualifies(table, score) == Len(table) < TOP_N \/ score > TenthPlace(table)

-----------------------------------------------------------------------------
(* Timed mode: /timed, /timed/hint, /timed/guess, /timed/skip and           *)
(* /timed/finish on the timed_* keys of the session, the clock and table    *)
(* timed_results.                                                           *)

TIMED_SECONDS == 120
SKIP_PENALTY == 50
TIMED_MIN_SCORE == 72

ClockStep == 60
MaxClock == 180
MaxTimedRequests == 4

TimedGuesses == { <<"tom", "brady">>, <<"Tim", "Brown">>, <<"zed">> }
TimedRevealed == {1, 2}
TimedKinds == {"team", "bogus"}

\* _timed_pick_new_player: a random eligible id, or a random seed-list slug
TimedPicks ==
    IF supabase /\ eligible # {}
    THEN {[pid |-> pid, json_slug |-> <<>>] : pid \in eligible}
    ELSE {[pid |-> NoPid, json_slug |-> PLAYERS[i].player_slug] : i \in 1..Len(PLAYERS)}

\* _bundle_for_pid_or_json: name, slug and position of the current player
TimedBundle(t) ==
    IF t.pid # NoPid THEN DbBundle(t.pid)
    ELSE LET p == CHOOSE x \in SeqRange(PLAYERS) : x.player_slug = t.json_slug
         IN  [id |-> NoPid, full_name |-> p.full_name, player_slug |-> p.player_slug,
              position |-> p.position, stat_lines |-> p.seasons]

\* suggest_players(user_guess_raw, pool, limit=4, min_score=72), evaluated once
TimedSuggestionsOf ==
    [population \in {DbPopulation, LocalPopulation} |->
        [position \in Positions |->
            [g \in TimedGuesses |->
                suggest_players(g, SuggestPool(population, position),
                                SUGGEST_LIMIT, TIMED_MIN_SCORE)]]]

\* seconds_left as timed() computes it
seconds_left(t) ==
    IF t.started_at # NoTime
    THEN Max(0, TIMED_SECONDS - (now - t.started_at))
    ELSE TIMED_SECONDS

TimedFrame ==
    UNCHANGED <<today, supabase, eligible, daily_game, results, session, solved, call,
                req, fn, bought, now, streaks, practice>>

\* whether and where the save of a total raises: only with a backend
TimedSaveOutcomes == IF supabase THEN SaveOutcomes ELSE {"ok"}

\* saved = _timed_maybe_save_top10(total, uid) if supabase and username
TimedSave(total, raises) ==
    IF supabase THEN _timed_maybe_save_top10(timed_results, total, UserId, raises)
    ELSE [table |-> timed_results, saved |-> FALSE]

\* GET /timed
timed_view(start_new) ==
    /\ nreq < MaxTimedRequests
    /\ nreq' = nreq + 1
    /\ \E pick \in TimedPicks, raises \in TimedSaveOutcomes :
          LET t1 == IF start_new \/ ~timed.active
                    THEN [active |-> TRUE, total |-> 0, revealed |-> 1,
                          hints_used |-> {}, suggestions |-> <<>>, started_at |-> now,
                          pid |-> pick.pid, json_slug |-> pick.json_slug]
                    ELSE timed
              r == TimedSave(t1.total, raises)
          IN  IF seconds_left(t1) <= 0 /\ t1.active
              THEN /\ timed' = NoTimed
                   /\ timed_results' = r.table
                   /\ resp' = [op |-> "timed", outcome |-> "result",
                               total |-> t1.total, saved |-> r.saved]
              ELSE /\ timed' = t1
                   /\ timed_results' = timed_results
                   /\ resp' = [op |-> "timed", outcome |-> "page",
                               total |-> t1.total, saved |-> FALSE]
    /\ TimedFrame

\* POST /timed/hint
timed_hint(form_revealed, hint_type) ==
    /\ nreq < MaxTimedRequests
    /\ nreq' = nreq + 1
    /\ LET kind == LowerKind(hint_type)
           t1 == [timed EXCEPT !.revealed = form_revealed]
       IN  IF ~timed.active
           THEN /\ timed' = timed
                /\ resp' = [op |-> "timed_hint", outcome |-> "inactive",
                            total |-> 0, saved |-> FALSE]
           ELSE IF kind = "" \/ kind \notin HintKinds
           THEN /\ timed' = t1
                /\ resp' = [op |-> "timed_hint", outcome |-> "unknown",
                            total |-> 0, saved |-> FALSE]
           ELSE /\ timed' = [t1 EXCEPT !.hints_used = @ \cup {kind}]
                /\ resp' = [op |-> "timed_hint", outcome |-> "ok",
                            total |-> 0, saved |-> FALSE]
    /\ timed_results' = timed_results
    /\ TimedFrame

\* timed_guess for an active run: the timed_* keys it leaves.  pick is the
\* player _timed_pick_new_player chooses after a correct guess
timed_guess_body(t, g, form_revealed, from_suggestion, pick) ==
    LET bundle == TimedBundle(t)
        per_player == compute_total_score(form_revealed, t.hints_used)
        suggestions == TimedSuggestionsOf[get_suggest_population][bundle.position][g]
        bumped == Min(StoredRevealed(t) + 1, MAX_REVEAL_CAP)
    IN  IF is_correct(g, bundle)
        THEN [timed |-> [t EXCEPT !.total = @ + per_player,
                                  !.revealed = 1, !.hints_used = {},
                                  !.suggestions = <<>>, !.pid = pick.pid,
                                  !.json_slug = pick.json_slug],
              outcome |-> "correct"]
        ELSE IF suggestions # <<>> /\ ~from_suggestion
        THEN [timed |-> [t EXCEPT !.suggestions = suggestions], outcome |-> "free"]
        ELSE [timed |-> [t EXCEPT !.suggestions = IF suggestions # <<>>
                                                  THEN suggestions ELSE @,
                                  !.revealed = bumped],
              outcome |-> "wrong"]

\* POST /timed/guess
timed_guess(g, form_revealed, from_suggestion) ==
    /\ nreq < MaxTimedRequests
    /\ nreq' = nreq + 1
    /\ IF ~timed.active
       THEN /\ timed' = timed
            /\ resp' = [op |-> "timed_guess", outcome |-> "inactive",
                        total |-> 0, saved |-> FALSE]
       ELSE \E pick \in TimedPicks :
               LET out == timed_guess_body(timed, g, form_revealed, from_suggestion, pick)
               IN  /\ timed' = out.timed
                   /\ resp' = [op |-> "timed_guess", outcome |-> out.outcome,
                               total |-> out.timed.total, saved |-> FALSE]
    /\ timed_results' = timed_results
    /\ TimedFrame

\* POST /timed/skip
timed_skip ==
    /\ nreq < MaxTimedRequests
    /\ nreq' = nreq + 1
    /\ IF ~timed.active
       THEN /\ timed' = timed
            /\ resp' = [op |-> "timed_skip", outcome |-> "inactive",
                        total |-> 0, saved |-> FALSE]
       ELSE \E pick \in TimedPicks :
               /\ timed' = [timed EXCEPT !.total = @ - SKIP_PENALTY, !.revealed = 1,
                                         !.hints_used = {}, !.suggestions = <<>>,
                                         !.pid = pick.pid,
                                         !.json_slug = pick.json_slug]
               /\ resp' = [op |-> "timed_skip", outcome |-> "skipped",
                           total |-> timed.total - SKIP_PENALTY, saved |-> FALSE]
    /\ timed_results' = timed_results
    /\ TimedFrame

\* the session after timed_finish: every timed_* key popped but timed_total
finish_clear(t) == [NoTimed EXCEPT !.total = t.total]

\* POST /timed/finish
timed_finish ==
    /\ nreq < MaxTimedRequests
    /\ nreq' = nreq + 1
    /\ \E raises \in TimedSaveOutcomes :
          LET r == TimedSave(timed.total, raises)
          IN  /\ timed_results' = r.table
              /\ resp' = [op |-> "timed_finish", outcome |-> "result",
                          total |-> timed.total, saved |-> r.saved]
    /\ timed' = finish_clear(timed)
    /\ TimedFrame

\* the clock moves on
ClockTick ==
    /\ now < MaxClock
    /\ now' = now + ClockStep
    /\ UNCHANGED <<today, supabase, eligible, daily_game, results, session, resp, solved,
                   call, req, nreq, fn, bought, timed_results, streaks, timed, practice>>

NextTimed ==
    \/ \E start_new \in BOOLEAN : timed_view(start_new)
    \/ \E fr \in TimedRevealed, k \in TimedKinds : timed_hint(fr, k)
    \/ \E g \in TimedGuesses, fr \in TimedRevealed, fs \in BOOLEAN : timed_guess(g, fr, fs)
    \/ timed_skip
    \/ timed_finish
    \/ ClockTick

SpecTimed == Init /\ [][NextTimed]_vars

\* C37: no points are added to the run total once 120 seconds have elapsed since
\* the run started: a timed guess answered after expiry does not increase
\* timed_total.
C37_NoPointsAfterExpiry ==
    [][(nreq' # nreq /\ resp'.op = "timed_guess" /\ timed.active
        /\ timed.started_at # NoTime /\ now - timed.started_at >= TIMED_SECONDS)
          => timed'.total <= timed.total]_vars

\* C38: a run's total is submitted for saving at most once: a timed_finish that
\* follows the request that finalized a run with a positive total (the expiry
\* page of /timed or a timed_finish) adds no row to timed_results.
C38_TotalSubmittedOnce ==
    [][(nreq' # nreq /\ resp'.op = "timed_finish"
        /\ resp.op \in {"timed", "timed_finish"} /\ resp.outcome = "result"
        /\ resp.total > 0)
          => timed_results' = timed_results]_vars

-----------------------------------------------------------------------------
(* Practice mode: /practice, /practice/guess, /practice/hint and            *)
(* /practice/giveup on the practice_* keys of the session.                  *)

MaxPracticeRequests == 3

PracticeGuesses == { <<"tom", "brady">>, <<"Tim", "Brown">>, <<"zed">> }
PracticeRevealed == {1, 2}
PracticeKinds == {"team", "division", "bogus"}

\* the bundle practice_guess rebuilds from practice_json_slug or practice_pid
PracticeBundle(p) ==
    IF p.json_slug # <<>>
    THEN LET x == CHOOSE x \in SeqRange(PLAYERS) : x.player_slug = p.json_slug
         IN  [id |-> NoPid, full_name |-> x.full_name, player_slug |-> x.player_slug,
              position |-> x.position, stat_lines |-> x.seasons]
    ELSE DbBundle(p.pid)

PracticeFrame ==
    UNCHANGED <<today, supabase, eligible, daily_game, results, session, solved, call,
                req, fn, bought, now, timed_results, streaks, timed>>

NoPracticeResp(op, outcome) == [op |-> op, outcome |-> outcome, score |-> 0]

\* GET /practice
practice_view(force_new) ==
    /\ nreq < MaxPracticeRequests
    /\ nreq' = nreq + 1
    /\ IF force_new \/ practice.pid = NoPid
       THEN \E pick \in TimedPicks :
               practice' = [revealed |-> 1, hints_used |-> {}, suggestions |-> <<>>,
                            pid |-> pick.pid, json_slug |-> pick.json_slug]
       ELSE practice' = practice
    /\ resp' = [op |-> "practice", outcome |-> "page",
                score |-> compute_total_score(StoredRevealed(practice'),
                                              practice'.hints_used)]
    /\ PracticeFrame

\* practice_hint writing the daily key hints_used
practice_hint_on_daily_keys(form_revealed, hint_type) ==
    /\ nreq < MaxPracticeRequests
    /\ nreq' = nreq + 1
    /\ LET kind == LowerKind(hint_type)
       IN  /\ practice' = [practice EXCEPT !.revealed = form_revealed]
           /\ session' = IF kind \in HintKinds
                         THEN [session EXCEPT !.hints_used = @ \cup {kind}]
                         ELSE session
           /\ resp' = NoPracticeResp("practice_hint", "ok")
    /\ UNCHANGED <<today, supabase, eligible, daily_game, results, solved, call,
                   req, fn, bought, now, timed_results, streaks, timed>>

\* POST /practice/hint
practice_hint(form_revealed, hint_type) ==
    /\ nreq < MaxPracticeRequests
    /\ nreq' = nreq + 1
    /\ LET kind == LowerKind(hint_type)
           p1 == [practice EXCEPT !.revealed = form_revealed]
       IN  IF kind = "" \/ kind \notin HintKinds
           THEN /\ practice' = p1
                /\ resp' = NoPracticeResp("practice_hint", "unknown")
           ELSE IF "team" \in p1.hints_used /\ kind \in {"conference", "division"}
           THEN /\ practice' = p1
                /\ resp' = NoPracticeResp("practice_hint", "superseded")
           ELSE /\ practice' = [p1 EXCEPT !.hints_used = @ \cup {kind}]
                /\ resp' = NoPracticeResp("practice_hint", "ok")
    /\ PracticeFrame

\* POST /practice/guess
practice_guess(g, form_revealed, from_suggestion) ==
    /\ nreq < MaxPracticeRequests
    /\ nreq' = nreq + 1
    /\ IF practice.json_slug = <<>> /\ practice.pid = NoPid
       THEN /\ practice' = practice
            /\ resp' = NoPracticeResp("practice_guess", "norun")
       ELSE LET bundle == PracticeBundle(practice)
                suggestions ==
                    SuggestionsOf[get_suggest_population][bundle.position][g]
            IN  IF is_correct(g, bundle)
                THEN /\ practice' = NoPractice
                     /\ resp' = [op |-> "practice_guess", outcome |-> "correct",
                                 score |-> compute_total_score(form_revealed,
                                                               practice.hints_used)]
                ELSE IF suggestions # <<>> /\ ~from_suggestion
                THEN /\ practice' = [practice EXCEPT !.suggestions = suggestions]
                     /\ resp' = NoPracticeResp("practice_guess", "free")
                ELSE /\ practice' =
                          [practice EXCEPT
                              !.suggestions = IF suggestions # <<>> THEN suggestions
                                              ELSE @,
                              !.revealed = Min(StoredRevealed(practice) + 1,
                                               MAX_REVEAL_CAP)]
                     /\ resp' = NoPracticeResp("practice_guess", "wrong")
    /\ PracticeFrame

\* POST /practice/giveup
practice_giveup ==
    /\ nreq < MaxPracticeRequests
    /\ nreq' = nreq + 1
    /\ practice' = NoPractice
    /\ resp' = NoPracticeResp("practice_giveup", "answer")
    /\ PracticeFrame

\* the daily game as practice can find it: untouched, in progress with a hint
\* bought, and solved with the result recorded
DailySessions ==
    { NewSession,
      [NewSession EXCEPT !.last_game_date = 1, !.revealed = 2, !.hints_used = {"team"}],
      [NewSession EXCEPT !.last_game_date = 1, !.revealed = 1, !.solved_today = TRUE] }

InitPractice ==
    /\ today = 1
    /\ supabase \in BOOLEAN
    /\ eligible \in (IF supabase THEN {EligibleIds, {}} ELSE {{}})
    /\ daily_game = {}
    /\ session \in DailySessions
    /\ results = IF supabase /\ session.solved_today
                 THEN {ResultRow(1, 1, compute_total_score(1, {}), FALSE)} ELSE {}
    /\ resp = NoResp
    /\ solved = IF session.solved_today THEN {1} ELSE {}
    /\ call = [c \in Callers |-> IdleCall]
    /\ req = [r \in Reqs |-> IdleReq]
    /\ nreq = 0
    /\ fn = IdleFn
    /\ bought = session.hints_used
    /\ now = 0
    /\ timed_results = <<>>
    /\ streaks = IF supabase /\ session.solved_today
                 THEN {[user_id |-> UserId, current_streak |-> 1, best_streak |-> 1]}
                 ELSE {}
    /\ timed = NoTimed
    /\ practice = NoPractice

NextPractice ==
    \/ \E force_new \in BOOLEAN : practice_view(force_new)
    \/ \E g \in PracticeGuesses, fr \in PracticeRevealed, fs \in BOOLEAN :
          practice_guess(g, fr, fs)
    \/ \E fr \in PracticeRevealed, k \in PracticeKinds : practice_hint(fr, k)
    \/ practice_giveup

SpecPractice == InitPractice /\ [][NextPractice]_vars

\* C32: practice mode never touches durable or daily state: no practice,
\* practice_guess, practice_hint or practice_giveup step writes to results,
\* streaks or timed_results, or changes the daily revealed, hints_used or solved
\* flag.
C32_PracticeLeavesDailyState ==
    [][(nreq' # nreq /\ resp'.op \in {"practice", "practice_guess", "practice_hint",
                                      "practice_giveup"})
          => /\ results' = results
             /\ streaks' = streaks
             /\ timed_results' = timed_results
             /\ session'.revealed = session.revealed
             /\ session'.hints_used = session.hints_used
             /\ session'.solved_today = session.solved_today
             /\ solved' = solved]_vars

\* a practice hint was bought and a practice guess judged correct while the
\* daily game is in progress with a hint of its own
C32_Witness ==
    /\ resp.op = "practice_guess" /\ resp.outcome = "correct"
    /\ resp.score < START_SCORE
    /\ session.hints_used = {"team"} /\ session.revealed = 2
    /\ nreq = MaxPracticeRequests

====
